---- MODULE Spec2Model ----
(***************************************************************************)
(* Model of src/main.py: an MCP server exposing two Wazuh queries as       *)
(* tools.  Each tool invocation calls get_token() (one HTTP GET with a     *)
(* 5 s timeout), then issues one bearer-authenticated HTTP GET and turns   *)
(* every outcome into a string.                                            *)
(*                                                                         *)
(* A Python str is modelled as a sequence of text fragments (TLA+ strings);*)
(* concatenation and f-string interpolation are \o.  The non-ASCII         *)
(* literals of the source are written in ASCII here, the original text is  *)
(* quoted in the comment above each of them.                               *)
(***************************************************************************)
EXTENDS Integers, Sequences, FiniteSets, TLC

VARIABLES
    pc,        \* per invocation: position in the tool function
    tool,      \* per invocation: which tool the runtime called
    token,     \* per invocation: the local variable `token`
    wire,      \* per invocation: the HTTP request in flight
    upstream,  \* per invocation: whether the upstream will answer that request
    resp,      \* per invocation: the last outcome requests.get() produced
    ret,       \* per invocation: the value returned to the runtime
    authReqs,  \* per invocation: authentication requests issued
    queryReqs  \* per invocation: query requests issued

vars == <<pc, tool, token, wire, upstream, resp, ret, authReqs, queryReqs>>

(***************************************************************************)
(* Bounds                                                                  *)
(***************************************************************************)
NumInvocations == 2   \* invocations the hosting runtime keeps in progress at once
MaxItems == 2         \* longest data.affected_items list the upstream sends
MaxDepth == 3         \* deepest nesting of the JSON documents the upstream sends

Invocations == 1..NumInvocations
Tools == {"list_agents", "get_infrastructure_status"}

(***************************************************************************)
(* JSON values as Python sees them after json.loads: a tag t and a value v.*)
(* An object is the sequence of its members in insertion order.            *)
(***************************************************************************)
None == [t |-> "null", v |-> <<>>]
JStr(s) == [t |-> "str", v |-> s]
JNum(n) == [t |-> "num", v |-> n]
JList(items) == [t |-> "list", v |-> items]
JObj(members) == [t |-> "obj", v |-> members]
KV(k, val) == [key |-> k, val |-> val]

\* Python call results: a value, or a raised exception with its str().
Ok(val) == [k |-> "ok", v |-> val]
Exc(desc) == [k |-> "exc", v |-> desc]

\* Lookup of a key among the members of an object: 0 when absent, else the
\* index of the member holding it (the last one, as json.loads keeps the
\* last duplicate).
MemberIndex(members, key) ==
    LET hits == {n \in 1..Len(members) : members[n].key = key}
    IN  IF hits = {} THEN 0 ELSE CHOOSE n \in hits : \A m \in hits : m <= n

\* Python `value[key]` with a string key.
Subscript(j, key) ==
    IF j.t = "obj"
    THEN IF MemberIndex(j.v, key) = 0
         THEN Exc("'" \o key \o "'")                       \* KeyError
         ELSE Ok(j.v[MemberIndex(j.v, key)].val)
    ELSE IF j.t = "list"
    THEN Exc("list indices must be integers or slices, not str")
    ELSE IF j.t = "str"
    THEN Exc("string indices must be integers")
    ELSE Exc("object is not subscriptable")                 \* None, numbers

\* Variant: a missing key raises KeyError, as `value[key]` does.
DictGetStrict(j, key, default) ==
    IF j.t = "obj"
    THEN IF MemberIndex(j.v, key) = 0
         THEN Exc("'" \o key \o "'")
         ELSE Ok(j.v[MemberIndex(j.v, key)].val)
    ELSE Exc("object has no attribute 'get'")

\* Python `value.get(key, default)`.
DictGet(j, key, default) ==
    IF j.t = "obj"
    THEN IF MemberIndex(j.v, key) = 0
         THEN Ok(default)
         ELSE Ok(j.v[MemberIndex(j.v, key)].val)
    ELSE Exc("object has no attribute 'get'")               \* AttributeError

\* Python truth value, as tested by `not token`.
Truthy(j) ==
    CASE j.t = "null" -> FALSE
      [] j.t = "str"  -> j.v # ""
      [] j.t = "num"  -> j.v # 0
      [] OTHER        -> Len(j.v) > 0

\* str() of a value inside an f-string.
PyStr(j) ==
    CASE j.t = "str"  -> <<j.v>>
      [] j.t = "num"  -> <<ToString(j.v)>>
      [] OTHER        -> <<"None">>

(***************************************************************************)
(* json.dumps(value, indent=2, ensure_ascii=False)                         *)
(***************************************************************************)
RECURSIVE Spaces(_)
Spaces(n) == IF n = 0 THEN "" ELSE " " \o Spaces(n - 1)

INDENT == 2
\* A newline and the indentation of each nesting level.
NewLines == [lvl \in 0..MaxDepth |-> "\n" \o Spaces(INDENT * lvl)]
NL(lvl) == NewLines[lvl]
Quote(s) == "\"" \o s \o "\""

RECURSIVE JsonDumps(_, _)
JsonDumps(j, lvl) ==
    LET Item(n) == <<NL(lvl + 1)>> \o JsonDumps(j.v[n], lvl + 1)
                   \o (IF n < Len(j.v) THEN <<",">> ELSE <<>>)
        Member(n) == <<NL(lvl + 1), Quote(j.v[n].key), ": ">>
                     \o JsonDumps(j.v[n].val, lvl + 1)
                     \o (IF n < Len(j.v) THEN <<",">> ELSE <<>>)
        RECURSIVE Join(_, _)
        Join(n, isObj) ==
            IF n > Len(j.v) THEN <<>>
            ELSE (IF isObj THEN Member(n) ELSE Item(n)) \o Join(n + 1, isObj)
    IN  CASE j.t = "null" -> <<"null">>
          [] j.t = "str"  -> <<Quote(j.v)>>
          [] j.t = "num"  -> <<ToString(j.v)>>
          [] j.t = "list" -> IF Len(j.v) = 0 THEN <<"[]">>
                             ELSE <<"[">> \o Join(1, FALSE) \o <<NL(lvl), "]">>
          [] j.t = "obj"  -> IF Len(j.v) = 0 THEN <<"{}">>
                             ELSE <<"{">> \o Join(1, TRUE) \o <<NL(lvl), "}">>

(***************************************************************************)
(* The upstream: what the Wazuh API may put on the wire.                   *)
(* A response body is text; resp.json() parses it (JsonLoads) and fails on *)
(* text that is no JSON document.                                          *)
(***************************************************************************)
AgentIds == {"001", "002"}
AgentStatus(id) == IF id = "001" THEN "active" ELSE "disconnected"
AgentRecord(id) == JObj(<<KV("id", JStr(id)), KV("status", JStr(AgentStatus(id)))>>)

\* The affected_items lists the upstream may send, as sequences of agent ids
\* in any order; an agent is listed once.
ItemLists ==
    {ids \in UNION {[1..n -> AgentIds] : n \in 0..MaxItems} :
        \A m, n \in 1..Len(ids) : ids[m] = ids[n] => m = n}

AgentsBody(ids) ==
    JObj(<<KV("data",
              JObj(<<KV("affected_items",
                        JList([n \in 1..Len(ids) |-> AgentRecord(ids[n])]))>>))>>)

TokenBody(tok) == JObj(<<KV("data", JObj(<<KV("token", JStr(tok))>>))>>)

\* The other JSON documents the upstream may send.
OtherBodies ==
    << TokenBody("abc123"),
       TokenBody("xyz789"),
       TokenBody(""),                                        \* empty token
       JObj(<<KV("data", JObj(<<>>))>>),                     \* data without fields
       JObj(<<>>),                                           \* no data key
       JObj(<<KV("data", None)>>),                           \* data is null
       JObj(<<KV("data", JObj(<<KV("Active", JNum(5)),
                                KV("Disconnected", JNum(1))>>))>>) >>

\* Which of them each endpoint may send.
AuthBodies == 1..5
MisshapenBodies == 4..6
SummaryBodies == 4..7

\* Compact JSON text of a value, as the upstream writes it.
RECURSIVE Wire(_)
Wire(j) ==
    LET RECURSIVE Join(_, _)
        Join(n, isObj) ==
            IF n > Len(j.v) THEN <<>>
            ELSE (IF n > 1 THEN <<",">> ELSE <<>>)
                 \o (IF isObj THEN <<Quote(j.v[n].key), ":">> \o Wire(j.v[n].val)
                     ELSE Wire(j.v[n]))
                 \o Join(n + 1, isObj)
    IN  CASE j.t = "null" -> <<"null">>
          [] j.t = "str"  -> <<Quote(j.v)>>
          [] j.t = "num"  -> <<ToString(j.v)>>
          [] j.t = "list" -> <<"[">> \o Join(1, FALSE) \o <<"]">>
          [] j.t = "obj"  -> <<"{">> \o Join(1, TRUE) \o <<"}">>

NotJsonText == <<"<html>502 Bad Gateway</html>">>
UnauthorizedText == <<"{\"title\":\"Unauthorized\",\"detail\":\"Invalid credentials\"}">>
ServerErrorText == <<"Internal Server Error">>

AgentsTexts == {Wire(AgentsBody(ids)) : ids \in ItemLists}
OtherText(n) == Wire(OtherBodies[n])
JsonTexts == AgentsTexts \cup {OtherText(n) : n \in 1..Len(OtherBodies)}

\* The value each JSON text denotes.
ParseTable ==
    [text \in JsonTexts |->
        IF \E ids \in ItemLists : Wire(AgentsBody(ids)) = text
        THEN AgentsBody(CHOOSE ids \in ItemLists : Wire(AgentsBody(ids)) = text)
        ELSE OtherBodies[CHOOSE n \in 1..Len(OtherBodies) : Wire(OtherBodies[n]) = text]]

\* resp.json(): the value a body text denotes, or a JSONDecodeError.
JsonLoads(text) ==
    IF text \in JsonTexts THEN Ok(ParseTable[text])
    ELSE Exc("Expecting value: line 1 column 1 (char 0)")

(***************************************************************************)
(* requests.get(): an HTTP response, or a raised exception.                *)
(***************************************************************************)
NoResp == [k |-> "none", status |-> 0, text |-> <<>>, exc |-> ""]
HttpResp(status, text) == [k |-> "resp", status |-> status, text |-> text, exc |-> ""]
Raised(desc) == [k |-> "exc", status |-> 0, text |-> <<>>, exc |-> desc]

ConnRefused == "HTTPSConnectionPool: Max retries exceeded (Connection refused)"
ReadTimedOut == "HTTPSConnectionPool: Read timed out. (read timeout=5)"

AuthPath == "/security/user/authenticate"
AgentsPath == "/agents"
SummaryPath == "/agents/summary/status"

\* What an upstream that answers may deliver for a request to each endpoint:
\* a status with a body, or a transport failure.
AuthAnswers ==
    {HttpResp(200, text) : text \in {OtherText(n) : n \in AuthBodies} \cup {NotJsonText}}
        \cup {HttpResp(401, UnauthorizedText), HttpResp(500, OtherText(1)),
              Raised(ConnRefused)}

QueryFailures ==
    {HttpResp(401, UnauthorizedText), HttpResp(500, ServerErrorText), Raised(ConnRefused)}

AgentsAnswers ==
    {HttpResp(200, text) :
        text \in AgentsTexts \cup {OtherText(n) : n \in MisshapenBodies} \cup {NotJsonText}}
        \cup QueryFailures

SummaryAnswers ==
    {HttpResp(200, text) : text \in {OtherText(n) : n \in SummaryBodies} \cup {NotJsonText}}
        \cup QueryFailures

Answers(path) ==
    CASE path = AuthPath    -> AuthAnswers
      [] path = AgentsPath  -> AgentsAnswers
      [] path = SummaryPath -> SummaryAnswers

AUTH_TIMEOUT == 5

\* Variant: every call passes the timeout.
TimeoutOfEveryCall(path) == {AUTH_TIMEOUT}

\* The timeout argument of the requests.get call to each endpoint: a set
\* holding the bound, empty when the call passes none.
TimeoutOf(path) == IF path = AuthPath THEN {AUTH_TIMEOUT} ELSE {}

\* The outcomes requests.get can produce for a request; none while it blocks.
RequestsGet(path, up) ==
    IF up = "answers" THEN Answers(path)
    ELSE IF TimeoutOf(path) # {} THEN {Raised(ReadTimedOut)}
    ELSE {}

(***************************************************************************)
(* get_token()                                                             *)
(***************************************************************************)
\* Variant: no except clause, the exception leaves get_token().
NoExcept(r) == r

\* `except Exception: return None` around a body's result.
ExceptReturnNone(r) == IF r.k = "exc" THEN Ok(None) ELSE r

\* Variant: the body is read whatever the status code.
GetTokenBodyAnyStatus(o) ==
    IF o.k = "exc" THEN Exc(o.exc)
    ELSE LET body == JsonLoads(o.text)
             data == IF body.k = "exc" THEN body ELSE Subscript(body.v, "data")
         IN  IF data.k = "exc" THEN data ELSE Subscript(data.v, "token")

\* The body of the try block, given what requests.get produced.
GetTokenBody(o) ==
    IF o.k = "exc" THEN Exc(o.exc)
    ELSE IF o.status = 200
    THEN LET body == JsonLoads(o.text)
             data == IF body.k = "exc" THEN body ELSE Subscript(body.v, "data")
         IN  IF data.k = "exc" THEN data ELSE Subscript(data.v, "token")
    ELSE Ok(None)

GetToken(o) == ExceptReturnNone(GetTokenBody(o))

(***************************************************************************)
(* The tools.  A step of a tool either returns a string, issues the query  *)
(* request, or lets an exception escape.                                   *)
(***************************************************************************)
Return(state, str) == [k |-> "return", state |-> state, v |-> str, header |-> <<>>]
Query(header) == [k |-> "query", state |-> "QUERYING", v |-> <<>>, header |-> header]
Escape(desc) == [k |-> "raise", state |-> "RAISED", v |-> <<desc>>, header |-> <<>>]

\* "錯誤: 無法連線至 Wazuh API"
AuthErrorPrefix == "ERROR: cannot connect to Wazuh API"
\* "，請檢查帳號密碼或網路連線。"
AuthErrorHint == ", check the credentials or the network connection."
\* "API 回傳錯誤: "
ApiErrorPrefix == "API returned an error: "
\* "發生例外錯誤: "
ListExceptionPrefix == "An exception occurred: "
\* "【資安態勢報告】\n"
ReportLabel == "[Security posture report]\n"
\* "查詢失敗: "
StatusErrorPrefix == "Query failed: "
\* "發生錯誤: "
StatusExceptionPrefix == "An error occurred: "

QueryPath(tl) == IF tl = "list_agents" THEN AgentsPath ELSE SummaryPath

\* Variant: the header is built from a token kept in a module-level cache,
\* which holds the token of whichever invocation acquired one first.
BearerHeaderCached(tok) ==
    LET holders == {j \in Invocations : token[j].t # "null"}
    IN  <<"Bearer ">> \o PyStr(IF holders = {} THEN tok
                               ELSE token[CHOOSE j \in holders : TRUE])

BearerHeader(tok) == <<"Bearer ">> \o PyStr(tok)

\* Variant: `if token is None`, which lets an empty token through.
AfterTokenNoneOnly(tl, tok) ==
    IF tok.t = "null"
    THEN Return("AUTH_FAILED",
                IF tl = "list_agents" THEN <<AuthErrorPrefix, AuthErrorHint>>
                ELSE <<AuthErrorPrefix>>)
    ELSE Query(BearerHeader(tok))

\* Variant: no test of the token at all.
AfterTokenNoCheck(tl, tok) == Query(BearerHeader(tok))

\* `if not token: return ...` and the construction of the headers.
AfterToken(tl, tok) ==
    IF ~Truthy(tok)
    THEN Return("AUTH_FAILED",
                IF tl = "list_agents" THEN <<AuthErrorPrefix, AuthErrorHint>>
                ELSE <<AuthErrorPrefix>>)
    ELSE Query(BearerHeader(tok))

\* The `except Exception as e` clause of each tool.
ExceptReturnStr(tl, desc) ==
    Return("QUERY_FAILED",
           <<IF tl = "list_agents" THEN ListExceptionPrefix ELSE StatusExceptionPrefix,
             desc>>)

\* Variant: the items are sorted by id before they are serialized.
AffectedItemsSorted(body) ==
    LET data == DictGet(body, "data", JObj(<<>>))
        items == IF data.k = "exc" THEN data
                 ELSE DictGet(data.v, "affected_items", JList(<<>>))
        IdOf(rec) == IF rec.v[1].val.v = "001" THEN 1 ELSE 2
        Before(a, b) == IdOf(a) < IdOf(b)
    IN  IF items.k = "exc" \/ items.v.t # "list" THEN items
        ELSE Ok(JList(SortSeq(items.v.v, Before)))

\* resp.json().get('data', {}).get('affected_items', [])
AffectedItems(body) ==
    LET data == DictGet(body, "data", JObj(<<>>))
    IN  IF data.k = "exc" THEN data
        ELSE DictGet(data.v, "affected_items", JList(<<>>))

\* resp.json().get('data', {})
Summary(body) == DictGet(body, "data", JObj(<<>>))

\* The non-200 branch of each tool.
HttpErrorString(tl, o) ==
    IF tl = "list_agents"
    THEN <<ApiErrorPrefix, ToString(o.status), " - ">> \o o.text
    ELSE <<StatusErrorPrefix, ToString(o.status)>>

\* The body of the try block of a tool, given what requests.get produced:
\* a returned string, or the exception raised inside the block.
QueryBody(tl, o) ==
    IF o.k = "exc" THEN Exc(o.exc)
    ELSE IF o.status = 200
    THEN LET body == JsonLoads(o.text)
             payload == IF body.k = "exc" THEN body
                        ELSE IF tl = "list_agents" THEN AffectedItems(body.v)
                        ELSE Summary(body.v)
         IN  IF payload.k = "exc" THEN payload
             ELSE Ok(Return("SUCCESS",
                            IF tl = "list_agents" THEN JsonDumps(payload.v, 0)
                            ELSE <<ReportLabel>> \o JsonDumps(payload.v, 0)))
    ELSE Ok(Return("QUERY_FAILED", HttpErrorString(tl, o)))

\* Variant: no except clause, the exception leaves the tool.
TryQueryNoExcept(tl, r) == IF r.k = "exc" THEN Escape(r.v) ELSE r.v

\* try: ... except Exception as e: return f"...{str(e)}"
TryQuery(tl, r) == IF r.k = "exc" THEN ExceptReturnStr(tl, r.v) ELSE r.v

AfterQuery(tl, o) == TryQuery(tl, QueryBody(tl, o))

\* AfterQuery, tabulated once over every outcome of the query request.
AfterQueryTable ==
    [tl \in Tools |->
        [o \in Answers(QueryPath(tl)) \cup {Raised(ReadTimedOut)} |-> AfterQuery(tl, o)]]

(***************************************************************************)
(* Invocations.  The hosting runtime calls a tool; the call blocks in      *)
(* requests.get until the upstream answers or the timeout fires.           *)
(***************************************************************************)
Terminal == {"AUTH_FAILED", "SUCCESS", "QUERY_FAILED", "RAISED"}
UpstreamModes == {"answers", "silent"}

\* get_token() and AfterToken, tabulated once over every outcome of the
\* authentication request.
AuthStepTable ==
    [tl \in Tools |->
        [o \in AuthAnswers \cup {Raised(ReadTimedOut)} |->
            LET r == GetToken(o)
            IN  [r |-> r,
                 step |-> IF r.k = "exc" THEN Escape(r.v) ELSE AfterToken(tl, r.v)]]]

NoReq == [call |-> "none", path |-> "", header |-> <<>>]
AuthReq == [call |-> "auth", path |-> AuthPath, header |-> <<"Basic">>]
QueryReq(tl, header) == [call |-> "query", path |-> QueryPath(tl), header |-> header]

Init ==
    /\ pc = [i \in Invocations |-> "START"]
    /\ tool = [i \in Invocations |-> "list_agents"]
    /\ token = [i \in Invocations |-> None]
    /\ wire = [i \in Invocations |-> NoReq]
    /\ upstream = [i \in Invocations |-> "idle"]
    /\ resp = [i \in Invocations |-> NoResp]
    /\ ret = [i \in Invocations |-> <<>>]
    /\ authReqs = [i \in Invocations |-> 0]
    /\ queryReqs = [i \in Invocations |-> 0]

\* The runtime calls tool tl: a fresh frame, and get_token() sends its request.
Invoke(i, tl) ==
    /\ pc[i] = "START"
    /\ \E up \in UpstreamModes : upstream' = [upstream EXCEPT ![i] = up]
    /\ pc' = [pc EXCEPT ![i] = "AUTHENTICATING"]
    /\ tool' = [tool EXCEPT ![i] = tl]
    /\ token' = [token EXCEPT ![i] = None]
    /\ wire' = [wire EXCEPT ![i] = AuthReq]
    /\ resp' = [resp EXCEPT ![i] = NoResp]
    /\ ret' = [ret EXCEPT ![i] = <<>>]
    /\ authReqs' = [authReqs EXCEPT ![i] = 0 + 1]
    /\ queryReqs' = [queryReqs EXCEPT ![i] = 0]

\* requests.get returns in get_token(); the tool tests the token and either
\* returns the authentication error or sends the query request.
AuthReturn(i) ==
    /\ pc[i] = "AUTHENTICATING"
    /\ \E o \in RequestsGet(wire[i].path, upstream[i]) :
         LET r == AuthStepTable[tool[i]][o].r
             step == AuthStepTable[tool[i]][o].step
         IN  /\ resp' = [resp EXCEPT ![i] = o]
             /\ pc' = [pc EXCEPT ![i] = step.state]
             /\ ret' = [ret EXCEPT ![i] = IF step.k = "return" THEN step.v ELSE <<>>]
             /\ IF step.k = "query"
                THEN /\ token' = [token EXCEPT ![i] = r.v]
                     /\ wire' = [wire EXCEPT ![i] = QueryReq(tool[i], step.header)]
                     /\ queryReqs' = [queryReqs EXCEPT ![i] = @ + 1]
                     /\ \E up \in UpstreamModes : upstream' = [upstream EXCEPT ![i] = up]
                ELSE /\ token' = [token EXCEPT ![i] = None]
                     /\ wire' = [wire EXCEPT ![i] = NoReq]
                     /\ upstream' = [upstream EXCEPT ![i] = "idle"]
                     /\ UNCHANGED queryReqs
    /\ UNCHANGED <<tool, authReqs>>

\* requests.get returns in the tool; the tool formats the outcome and returns.
QueryReturn(i) ==
    /\ pc[i] = "QUERYING"
    /\ \E o \in RequestsGet(wire[i].path, upstream[i]) :
         LET step == AfterQueryTable[tool[i]][o]
         IN  /\ resp' = [resp EXCEPT ![i] = o]
             /\ pc' = [pc EXCEPT ![i] = step.state]
             /\ ret' = [ret EXCEPT ![i] = IF step.k = "return" THEN step.v ELSE <<>>]
    /\ token' = [token EXCEPT ![i] = None]
    /\ wire' = [wire EXCEPT ![i] = NoReq]
    /\ upstream' = [upstream EXCEPT ![i] = "idle"]
    /\ UNCHANGED <<tool, authReqs, queryReqs>>

\* The runtime takes the outcome of a finished call; nothing of it is kept.
Collect(i) ==
    /\ pc[i] \in Terminal
    /\ pc' = [pc EXCEPT ![i] = "START"]
    /\ resp' = [resp EXCEPT ![i] = NoResp]
    /\ ret' = [ret EXCEPT ![i] = <<>>]
    /\ authReqs' = [authReqs EXCEPT ![i] = 0]
    /\ queryReqs' = [queryReqs EXCEPT ![i] = 0]
    /\ tool' = [tool EXCEPT ![i] = "list_agents"]
    /\ UNCHANGED <<token, wire, upstream>>

Next ==
    \E i \in Invocations :
        \/ \E tl \in Tools : Invoke(i, tl)
        \/ AuthReturn(i)
        \/ QueryReturn(i)
        \/ Collect(i)

Spec == Init /\ [][Next]_vars

\* The step a blocked invocation takes when its requests.get call returns.
Proceed(i) == AuthReturn(i) \/ QueryReturn(i)

\* A tool's code runs on once its blocking call returns.
LiveSpec == Spec /\ \A i \in Invocations : WF_vars(Proceed(i))

TypeOK ==
    /\ pc \in [Invocations -> {"START", "AUTHENTICATING", "QUERYING"} \cup Terminal]
    /\ tool \in [Invocations -> Tools]
    /\ upstream \in [Invocations -> UpstreamModes \cup {"idle"}]
    /\ \A i \in Invocations : authReqs[i] \in Nat /\ queryReqs[i] \in Nat

(***************************************************************************)
(* Vocabulary of the properties: text tests, and what the upstream sent,   *)
(* read off the wire text independently of the tools' own parsing.         *)
(***************************************************************************)
IsPrefix(p, s) == Len(p) <= Len(s) /\ SubSeq(s, 1, Len(p)) = p
Contains(s, frag) == \E n \in 1..Len(s) : s[n] = frag
ContainsText(s, sub) ==
    \E n \in 0..(Len(s) - Len(sub)) : SubSeq(s, n + 1, n + Len(sub)) = sub

TokenStrings == {"abc123", "xyz789", ""}
TokenTexts == [t \in TokenStrings |-> Wire(TokenBody(t))]

\* The authentication response is a 200 whose body carries data.token.
CarriesToken(o) ==
    o.k = "resp" /\ o.status = 200 /\ \E t \in TokenStrings : TokenTexts[t] = o.text
SentToken(o) == CHOOSE t \in TokenStrings : TokenTexts[t] = o.text
\* The authentication response yields a usable token.
GrantsToken(o) == CarriesToken(o) /\ SentToken(o) # ""

\* The agent ids of each /agents body, in the order the upstream sent them.
SentIds == [text \in AgentsTexts |-> CHOOSE ids \in ItemLists : Wire(AgentsBody(ids)) = text]

\* The values that follow the given key in a pretty-printed text, in order.
RECURSIVE ValuesOf(_, _)
ValuesOf(s, key) ==
    IF Len(s) < 3 THEN <<>>
    ELSE IF s[1] = Quote(key) /\ s[2] = ": "
    THEN <<s[3]>> \o ValuesOf(SubSeq(s, 4, Len(s)), key)
    ELSE ValuesOf(Tail(s), key)

Count(s, frag) == Cardinality({n \in 1..Len(s) : s[n] = frag})

\* The invocation has consumed its authentication response and nothing since.
AfterAuth(i) == pc[i] \in {"AUTH_FAILED", "QUERYING"}
\* The invocation has consumed the response to its query request.
AfterQueryResp(i) == pc[i] \in {"SUCCESS", "QUERY_FAILED"}

(***************************************************************************)
(* Properties                                                              *)
(***************************************************************************)

\* C1: every invocation of either tool ends by returning a non-empty string;
\* no exception leaves the tool, whatever the authentication call and the
\* query call produce.
C1_AlwaysReturnsString ==
    \A i \in Invocations :
        /\ pc[i] # "RAISED"
        /\ pc[i] \in Terminal => ret[i] # <<>> /\ ret[i] \in Seq(STRING)

\* A 200 query response whose body is no JSON has been turned into a string.
C1_Witness ==
    \E i \in Invocations :
        /\ pc[i] = "QUERY_FAILED"
        /\ resp[i] = HttpResp(200, NotJsonText)
        /\ ret[i] # <<>>

\* C2: get_token() never raises; it returns the value at data.token exactly
\* when the response is a 200 whose body carries that field, and None for
\* every other status and for every exception of the call or the parse.
C2_GetTokenTotal ==
    \A i \in Invocations :
        /\ ~(pc[i] = "RAISED" /\ queryReqs[i] = 0)
        /\ AfterAuth(i) =>
             LET r == GetToken(resp[i])
             IN  /\ r.k = "ok"
                 /\ IF CarriesToken(resp[i])
                    THEN r.v.t = "str" /\ r.v.v = SentToken(resp[i])
                    ELSE r.v.t = "null"
        /\ pc[i] = "QUERYING" =>
             /\ CarriesToken(resp[i])
             /\ token[i].t = "str" /\ token[i].v = SentToken(resp[i])

\* One invocation holds the token its 200 response carried while another got
\* none from a transport exception, and a third kind of answer, a non-200
\* carrying a token, has been refused too.
C2_Witness ==
    \E i, j \in Invocations :
        /\ pc[i] = "QUERYING" /\ CarriesToken(resp[i])
        /\ pc[j] = "AUTH_FAILED"
        /\ resp[j] \in {Raised(ConnRefused), Raised(ReadTimedOut), HttpResp(500, OtherText(1))}

\* C3: when get_token() yields no token (None or an empty token), the tool
\* returns a string beginning with the authentication-error prefix and issues
\* no query request.
C3_NoTokenShortCircuits ==
    \A i \in Invocations :
        (AfterAuth(i) /\ ~GrantsToken(resp[i])) =>
            /\ pc[i] = "AUTH_FAILED"
            /\ IsPrefix(<<AuthErrorPrefix>>, ret[i])
            /\ queryReqs[i] = 0
            /\ wire[i] = NoReq

\* A 200 carrying an empty token in one tool and a 401 in the other have both
\* ended in the authentication error.
C3_Witness ==
    \E i, j \in Invocations :
        /\ pc[i] = "AUTH_FAILED" /\ tool[i] = "list_agents"
        /\ CarriesToken(resp[i]) /\ SentToken(resp[i]) = ""
        /\ pc[j] = "AUTH_FAILED" /\ tool[j] = "get_infrastructure_status"
        /\ resp[j] = HttpResp(401, UnauthorizedText)

\* C4: for every non-200 query response, in both tools, the returned string
\* contains the status code and the response body text.
C4_HttpErrorHasStatusAndBody ==
    \A i \in Invocations :
        (pc[i] = "QUERY_FAILED" /\ resp[i].k = "resp" /\ resp[i].status # 200) =>
            /\ Contains(ret[i], ToString(resp[i].status))
            /\ ContainsText(ret[i], resp[i].text)

\* C5 as claimed: when the connection is refused on every request, the
\* returned string embeds the description of the transport error.
C5_RefusedEmbedsTransportError ==
    \A i \in Invocations :
        (pc[i] \in Terminal /\ queryReqs[i] = 0 /\ resp[i] = Raised(ConnRefused)) =>
            Contains(ret[i], ConnRefused)

\* C5 as amended: when the connection is refused on every request, both tools
\* return the fixed authentication-error string, which does not embed the
\* description of the transport error, and no exception escapes.
C5_RefusedGivesAuthError ==
    \A i \in Invocations :
        (pc[i] \in Terminal /\ queryReqs[i] = 0 /\ resp[i] = Raised(ConnRefused)) =>
            /\ pc[i] = "AUTH_FAILED"
            /\ ret[i] = IF tool[i] = "list_agents"
                        THEN <<AuthErrorPrefix, AuthErrorHint>>
                        ELSE <<AuthErrorPrefix>>
            /\ ~Contains(ret[i], ConnRefused)

\* Both tools have returned after a refused connection.
C5_Witness ==
    \E i, j \in Invocations :
        /\ tool[i] = "list_agents" /\ tool[j] = "get_infrastructure_status"
        /\ \A n \in {i, j} : pc[n] = "AUTH_FAILED" /\ resp[n] = Raised(ConnRefused)

\* The edges of the per-invocation state machine; a finished call goes back
\* to START only by being collected by the runtime.
Edges ==
    {<<"START", "AUTHENTICATING">>,
     <<"AUTHENTICATING", "AUTH_FAILED">>, <<"AUTHENTICATING", "QUERYING">>,
     <<"QUERYING", "SUCCESS">>, <<"QUERYING", "QUERY_FAILED">>,
     <<"AUTH_FAILED", "START">>, <<"SUCCESS", "START">>, <<"QUERY_FAILED", "START">>}

C6_Counts ==
    \A i \in Invocations :
        /\ pc[i] = "START" => authReqs[i] = 0 /\ queryReqs[i] = 0
        /\ pc[i] \in {"AUTHENTICATING", "AUTH_FAILED"} => authReqs[i] = 1 /\ queryReqs[i] = 0
        /\ pc[i] \in {"QUERYING", "SUCCESS", "QUERY_FAILED"} =>
             authReqs[i] = 1 /\ queryReqs[i] = 1

C6_Steps ==
    \A i \in Invocations :
        /\ pc'[i] # pc[i] => <<pc[i], pc'[i]>> \in Edges
        /\ queryReqs'[i] > queryReqs[i] =>
             /\ pc[i] = "AUTHENTICATING" /\ pc'[i] = "QUERYING"
             /\ GrantsToken(resp'[i])
        /\ authReqs'[i] > authReqs[i] => pc[i] = "START"
        /\ pc[i] \in {"AUTH_FAILED", "QUERY_FAILED"} =>
             authReqs'[i] <= authReqs[i] /\ queryReqs'[i] <= queryReqs[i]

\* C6: an invocation follows START -> AUTHENTICATING -> (AUTH_FAILED |
\* QUERYING -> (SUCCESS | QUERY_FAILED)) with no retry edge: one
\* authentication request, at most one query request, the query request only
\* in the step where the authentication response granted a token, and no
\* request once a failure state is reached.
C6_NoRetry == [] C6_Counts /\ [][C6_Steps]_vars

\* An invocation failed in its query after exactly one request of each kind.
C6_Witness ==
    \E i \in Invocations :
        pc[i] = "QUERY_FAILED" /\ authReqs[i] = 1 /\ queryReqs[i] = 1

C7_OwnToken ==
    \A i \in Invocations :
        /\ pc[i] = "QUERYING" =>
             /\ GrantsToken(resp[i])
             /\ wire[i].header = <<"Bearer ", SentToken(resp[i])>>
             /\ token[i].t = "str" /\ token[i].v = SentToken(resp[i])
        /\ pc[i] # "QUERYING" =>
             /\ token[i].t = "null"
             /\ wire[i] \in {NoReq, AuthReq}

C7_Isolated ==
    \A i, j \in Invocations :
        (i # j /\ pc'[i] # pc[i]) =>
            /\ pc'[j] = pc[j] /\ tool'[j] = tool[j] /\ token'[j] = token[j]
            /\ wire'[j] = wire[j] /\ resp'[j] = resp[j] /\ ret'[j] = ret[j]

\* C7: under every interleaving of concurrent invocations, the bearer token
\* in an invocation's query request is the token its own authentication
\* response carried; a step of one invocation changes nothing of another, and
\* no token is kept once the invocation has returned.
C7_TokenPerInvocation == [] C7_OwnToken /\ [][C7_Isolated]_vars

\* Two invocations are querying at once with different tokens.
C7_Witness ==
    \E i, j \in Invocations :
        /\ pc[i] = "QUERYING" /\ pc[j] = "QUERYING"
        /\ wire[i].header = <<"Bearer ", "abc123">>
        /\ wire[j].header = <<"Bearer ", "xyz789">>

\* C8: for a 200 /agents response whose body carries data.affected_items,
\* list_agents() returns the pretty-printed list of exactly those records:
\* the ids and statuses read back from the returned text are those the
\* upstream sent, as many and in the same order, whatever the token was.
C8_AgentsVerbatim ==
    \A i \in Invocations :
        (/\ AfterQueryResp(i) /\ tool[i] = "list_agents"
         /\ resp[i].k = "resp" /\ resp[i].status = 200
         /\ resp[i].text \in AgentsTexts) =>
            LET ids == SentIds[resp[i].text]
            IN  /\ pc[i] = "SUCCESS"
                /\ ValuesOf(ret[i], "id") = [n \in 1..Len(ids) |-> Quote(ids[n])]
                /\ ValuesOf(ret[i], "status")
                     = [n \in 1..Len(ids) |-> Quote(AgentStatus(ids[n]))]
                /\ Count(ret[i], "{") = Len(ids)
                /\ ret[i][1] = IF Len(ids) = 0 THEN "[]" ELSE "["

\* list_agents() has returned a list the upstream sent in descending id order.
C8_Witness ==
    \E i \in Invocations :
        /\ pc[i] = "SUCCESS" /\ tool[i] = "list_agents"
        /\ resp[i] = HttpResp(200, Wire(AgentsBody(<<"002", "001">>)))
        /\ ValuesOf(ret[i], "id") = <<Quote("002"), Quote("001")>>

C9_AuthBounded ==
    \A i \in Invocations : (pc[i] = "AUTHENTICATING") ~> (pc[i] # "AUTHENTICATING")

\* Once blocked on a query request the upstream never answers, always blocked.
C9_QueryStays ==
    \A i \in Invocations :
        (pc[i] = "QUERYING" /\ upstream[i] = "silent") =>
            (pc'[i] = "QUERYING" /\ upstream'[i] = "silent")

\* C9: an invocation always eventually leaves AUTHENTICATING, the timeout
\* ending the wait when the upstream never answers; an invocation whose query
\* request is never answered stays in QUERYING forever.
C9_OnlyAuthIsBounded == C9_AuthBounded /\ [][C9_QueryStays]_vars

\* One invocation left AUTHENTICATING by the timeout while another waits on a
\* query request the upstream will never answer.
C9_Witness ==
    \E i, j \in Invocations :
        /\ pc[i] = "AUTH_FAILED" /\ resp[i] = Raised(ReadTimedOut)
        /\ pc[j] = "QUERYING" /\ upstream[j] = "silent"

NoDataText == Wire(JObj(<<>>))
NoFieldsText == Wire(JObj(<<KV("data", JObj(<<>>))>>))

\* C10: a 200 authentication response without data or data.token ends in
\* AUTH_FAILED with the error string, but a 200 query response whose object
\* lacks data (or, for list_agents, data.affected_items) ends in SUCCESS:
\* list_agents() returns "[]" and get_infrastructure_status() returns the
\* report label followed by "{}".
C10_MissingFieldsAsymmetry ==
    \A i \in Invocations :
        /\ (AfterAuth(i) /\ resp[i] \in {HttpResp(200, NoDataText), HttpResp(200, NoFieldsText)}) =>
             pc[i] = "AUTH_FAILED" /\ IsPrefix(<<AuthErrorPrefix>>, ret[i])
        /\ (/\ AfterQueryResp(i) /\ tool[i] = "list_agents"
            /\ resp[i] \in {HttpResp(200, NoDataText), HttpResp(200, NoFieldsText)}) =>
             pc[i] = "SUCCESS" /\ ret[i] = <<"[]">>
        /\ (/\ AfterQueryResp(i) /\ tool[i] = "get_infrastructure_status"
            /\ resp[i] = HttpResp(200, NoDataText)) =>
             pc[i] = "SUCCESS" /\ ret[i] = <<ReportLabel, "{}">>

\* The same body without data has failed an authentication and succeeded as
\* a query answer.
C10_Witness ==
    \E i, j \in Invocations :
        /\ pc[i] = "AUTH_FAILED" /\ resp[i] = HttpResp(200, NoDataText)
        /\ pc[j] = "SUCCESS" /\ resp[j] = HttpResp(200, NoDataText)
        /\ ret[j] \in {<<"[]">>, <<ReportLabel, "{}">>}

====
